---- MODULE Spec2Model ----
(***************************************************************************)
(* conio_lt.h (Unix branch): the raw-mode single character read __getch    *)
(* and the cursor-position query __whereis_xy, with the terminal they      *)
(* talk to, and the functions built on them: kbhit, gotoxy, dellines and   *)
(* cgets.                                                                  *)
(*                                                                         *)
(* Terminal line-discipline flags (termios c_lflag) are modelled as the    *)
(* set of flags that are on: "x &= ~F" is set difference, "x &= F" is set  *)
(* intersection.  Characters are their integer codes.                      *)
(***************************************************************************)
EXTENDS Integers, Sequences, FiniteSets, TLC

(* ------------------------------ bounds -------------------------------- *)
\* cursor rows / columns the terminal is found at: 0..MaxRow, 0..MaxCol
MaxRow == 10
MaxCol == 10
\* length of the content of a non-terminal standard input
MaxInput == 2
\* API calls made by one thread
MaxCalls == 2
\* character reads one cursor query may perform before the model stops it
MaxReads == 12
\* API calls made by all threads of a multi-threaded host together
MaxConcCalls == 2
\* line numbers passed to dellines: -1..MaxLine
MaxLine == 4
\* lines of the smaller of the two screens a terminal has
MinRows == 3
\* size of the array passed to cgets
MaxBuf == 3
\* calls of delline one dellines may make before the model stops it
MaxDeletes == 6

(* -------------------------- program constants ------------------------- *)
STDIN_FILENO == 0
STDOUT_FILENO == 1
CHR_ESC == 27
CHR_LBRACKET == 91
CHR_SEMICOLON == 59
CHR_R == 82
CHR_ZERO == 48
CHR_SIX == 54
CHR_n == 110
EOF == -1
CPOS_BITS == 16
CPOS_MAX == 2 ^ (CPOS_BITS - 1) - 1
CHR_CR == 13
CHR_LF == 10
CHR_NUL == 0
CHR_TWO == CHR_ZERO + 2
CHR_H == CHR_ZERO + 24
CHR_K == CHR_ZERO + 27

GETCH_NO_ECHO == "GETCH_NO_ECHO"
GETCH_USE_ECHO == "GETCH_USE_ECHO"
GETCH_ECHO == {GETCH_NO_ECHO, GETCH_USE_ECHO}

ICANON == "ICANON"
ECHO == "ECHO"
ISIG == "ISIG"
\* the c_lflag bits of the model: the two __getch touches and one it must not
Flags == {ICANON, ECHO, ISIG}
Modes == SUBSET Flags

O_NONBLOCK == "O_NONBLOCK"
O_APPEND == "O_APPEND"
\* the file status flags of the model: the one kbhit sets and one it must keep
StatusFlags == {O_NONBLOCK, O_APPEND}

Threads == {1, 2}
MainThread == 1

(* ------------------------------ terminal ------------------------------ *)
\* a key the user can press, and a character that is no digit and no part
\* of the reply grammar
CHR_A == CHR_ZERO + 17
CHR_B == CHR_ZERO + 18
Keys == {CHR_A, CHR_B}
\* bytes a non-terminal standard input (file, pipe) can hold
FileChars == {CHR_ESC, CHR_LBRACKET, CHR_A}

Positions == (0 .. MaxRow) \X (0 .. MaxCol)
\* how the terminal answers a status request
Faults == {"ok", "badfirst", "badsecond", "badboth", "rowjunk", "coljunk", "overflow"}
FaultPosition == <<MaxRow, 1>>

RECURSIVE SeqsUpTo(_, _)
SeqsUpTo(S, n) ==
    IF n = 0 THEN {<<>>}
    ELSE LET shorter == SeqsUpTo(S, n - 1)
         IN shorter \cup {Append(s, e) : s \in {z \in shorter : Len(z) = n - 1}, e \in S}

\* decimal digits of a non-negative number, most significant first (printf %u / %d)
RECURSIVE Dec(_)
Dec(n) == IF n < 10 THEN <<CHR_ZERO + n>> ELSE Append(Dec(n \div 10), CHR_ZERO + (n % 10))

\* the request printf("%s[6n", ESC) writes
DSR == <<CHR_ESC, CHR_LBRACKET, CHR_SIX, CHR_n>>

\* the reply of a terminal whose cursor is at <<row, col>>: ESC [ row ; col R,
\* or one of its malformed variants; "overflow" is a terminal that reports a
\* column beyond the largest cpos_t
Reply(pos, f) ==
    LET first  == IF f \in {"badfirst", "badboth"} THEN CHR_A ELSE CHR_ESC
        second == IF f \in {"badsecond", "badboth"} THEN CHR_A ELSE CHR_LBRACKET
        rowgrp == IF f = "rowjunk" THEN Append(Dec(pos[1]), CHR_A) ELSE Dec(pos[1])
        colgrp == IF f = "coljunk" THEN <<CHR_A>> \o Dec(pos[2])
                  ELSE IF f = "overflow" THEN Dec(2 ^ (CPOS_BITS - 1) + pos[2])
                  ELSE Dec(pos[2])
    IN <<first, second>> \o rowgrp \o <<CHR_SEMICOLON>> \o colgrp \o <<CHR_R>>

(* ------------------------------- state -------------------------------- *)
VARIABLES
    term,       \* c_lflag of the terminal
    term0,      \* c_lflag of the terminal when the program started
    stdinTty,   \* standard input is the terminal (else a file or pipe)
    stdin,      \* characters pending on standard input
    out,        \* characters shown on the display since the current API call began
    cursor,     \* <<row, col>> of the terminal's cursor
    fault,      \* how this terminal answers a status request
    pc,         \* per thread: position in __getch / the API call
    wpc,        \* per thread: position in __whereis_xy ("none" outside it)
    api,        \* per thread: the API function called last
    calls,      \* per thread: number of API calls made
    echo,       \* per thread: __getch's argument __echo
    oldterm,    \* per thread: __getch's __oldterm
    newterm,    \* per thread: __getch's __newterm
    c,          \* per thread: __getch's __c
    h1, h2,     \* per thread: first and second character read by __whereis_xy
    x, y,       \* per thread: __whereis_xy's x and y
    px, py,     \* per thread: the caller's variables it passes to wherexy
    lx, ly,     \* per thread: the locals __x and __y of wherex / wherey
    result,     \* per thread: value returned by getch / getche / wherex / wherey
    saved,      \* per thread: terminal mode when the running __getch was entered
    capFailed,  \* per thread: tcgetattr of the running __getch failed
    appFailed,  \* per thread: the first tcsetattr of the running __getch failed
    inlog,      \* every character standard input held or received since the current API call began
    nreads,     \* per thread: character reads made by the running cursor query
    stored,     \* per thread: the last cursor query stored coordinates
    prev,       \* per thread: what the previous API call was and gave, and what the
                \* caller's variables, the terminal mode and the file status
                \* flags were when the current one began
    stale,      \* some __getch captured the mode another __getch had applied
    query,      \* per thread: the function that called __whereis_xy
    oldt, newt, \* per thread: kbhit's oldt and newt
    ch,         \* per thread: kbhit's ch
    oldf,       \* per thread: kbhit's oldf
    fl,         \* file status flags of standard input
    dpc,        \* per thread: position in dellines ("none" outside it)
    from, to,   \* per thread: dellines' from and to
    i,          \* per thread: dellines' i
    orig_y,     \* per thread: dellines' orig_y
    rows,       \* number of lines of the terminal's screen
    cleared,    \* lines erased since the current dellines call began
    err,        \* the current dellines call wrote its message to standard error
    entry,      \* the cursor and the arguments when the current dellines call
                \* began, and the calls of delline it has made
    buffer,     \* the array the program passes to cgets, indexed from 0
    cret,       \* what the last cgets returned, and the first byte it was given
    oob,        \* the last cgets accessed a byte outside the first N of buffer
    mpc,        \* position in main of test_coord.c
    cursor0     \* the cursor when the program started

vars == <<term, term0, stdinTty, stdin, out, cursor, fault, pc, wpc, api, calls,
          echo, oldterm, newterm, c, h1, h2, x, y, px, py, lx, ly, result, saved,
          capFailed, appFailed, inlog, nreads, stored, prev, stale, query,
          oldt, newt, ch, oldf, fl, dpc, from, to, i, orig_y, rows, cleared, err,
          entry, buffer, cret, oob, mpc, cursor0>>

termVars   == <<term0, stdinTty, cursor, fault>>
frameVars  == <<echo, oldterm, newterm, c, saved, capFailed, appFailed>>
whereVars  == <<wpc, h1, h2, x, y, px, py, lx, ly, nreads, stored>>
callVars   == <<api, calls, result, prev>>
kbVars     == <<oldt, newt, ch, oldf, fl>>
lineVars   == <<dpc, from, to, i, orig_y, rows, cleared, err, entry>>
bufVars    == <<buffer, cret, oob>>
progVars   == <<mpc, cursor0>>
\* the state of the functions other than __getch and __whereis_xy
restVars   == <<kbVars, lineVars, bufVars, progVars>>

NoPrev == [api |-> "none", consumed |-> <<>>, xy |-> <<0, 0>>, result |-> 0,
           caller |-> <<0, 0>>, mode |-> {}, status |-> {}]

InitThreads ==
    /\ pc = [t \in Threads |-> "idle"]
    /\ wpc = [t \in Threads |-> "none"]
    /\ api = [t \in Threads |-> "none"]
    /\ calls = [t \in Threads |-> 0]
    /\ echo = [t \in Threads |-> GETCH_NO_ECHO]
    /\ oldterm = [t \in Threads |-> {}]
    /\ newterm = [t \in Threads |-> {}]
    /\ c = [t \in Threads |-> 0]
    /\ h1 = [t \in Threads |-> 0]
    /\ h2 = [t \in Threads |-> 0]
    /\ x = [t \in Threads |-> 0]
    /\ y = [t \in Threads |-> 0]
    /\ px = [t \in Threads |-> 0]
    /\ py = [t \in Threads |-> 0]
    /\ lx = [t \in Threads |-> 0]
    /\ ly = [t \in Threads |-> 0]
    /\ result = [t \in Threads |-> 0]
    /\ saved = [t \in Threads |-> {}]
    /\ capFailed = [t \in Threads |-> FALSE]
    /\ appFailed = [t \in Threads |-> FALSE]
    /\ nreads = [t \in Threads |-> 0]
    /\ stored = [t \in Threads |-> FALSE]
    /\ prev = [t \in Threads |-> NoPrev]
    /\ stale = FALSE
    /\ out = <<>>
    /\ query = [t \in Threads |-> "none"]
    /\ oldt = [t \in Threads |-> {}]
    /\ newt = [t \in Threads |-> {}]
    /\ ch = [t \in Threads |-> 0]
    /\ oldf = [t \in Threads |-> {}]
    /\ dpc = [t \in Threads |-> "none"]
    /\ from = [t \in Threads |-> 0]
    /\ to = [t \in Threads |-> 0]
    /\ i = [t \in Threads |-> 0]
    /\ orig_y = [t \in Threads |-> 0]
    /\ cleared = {}
    /\ err = FALSE
    /\ cret = [value |-> "none", max |-> 0]
    /\ oob = FALSE
    /\ mpc = "start"
    /\ entry = [cursor |-> cursor, from |-> 0, to |-> 0, deleted |-> 0]
    /\ cursor0 = cursor

\* The program starts with the terminal in any mode.  Standard input is
\* either the terminal, with nothing typed yet and the cursor anywhere (a
\* terminal that answers malformed is taken at one position), or a file
\* with any short content.
Init ==
    /\ term \in Modes
    /\ term0 = term
    /\ stdinTty \in BOOLEAN
    /\ \/ /\ stdinTty
          /\ stdin = <<>>
          /\ \/ cursor \in Positions /\ fault = "ok"
             \/ cursor = FaultPosition /\ fault \in Faults \ {"ok"}
       \/ /\ ~stdinTty
          /\ stdin \in SeqsUpTo(FileChars, MaxInput)
          /\ cursor = FaultPosition
          /\ fault = "ok"
    /\ inlog = stdin
    /\ fl = {}
    /\ rows = MaxRow
    /\ buffer = <<0>>
    /\ InitThreads

(* ------------------------------ termios ------------------------------- *)
\* whether a file descriptor refers to the terminal: standard output always
\* does, standard input may be redirected
IsTerminal(fd) == IF fd = STDIN_FILENO THEN stdinTty ELSE TRUE

\* the terminal mode after tcsetattr(fd, TCSANOW, &m): m when fd is the
\* terminal; the call fails (ENOTTY) and changes nothing otherwise
tcsetattr(fd, m) == IF IsTerminal(fd) THEN m ELSE term

\* the values tcgetattr(fd, &m) can leave in m: the terminal's mode, or, when
\* the call fails, whatever the uninitialised struct held
tcgetattr(fd) == IF IsTerminal(fd) THEN {term} ELSE Modes

\* __newterm as __getch derives it from __oldterm
DeriveMode(m, e) ==
    LET nocanon == m \ {ICANON}
    IN IF e = GETCH_USE_ECHO THEN nocanon \cap {ECHO} ELSE nocanon \ {ECHO}

\* conversion of an int to the 16-bit signed cpos_t
ToCpos(v) ==
    LET half == 2 ^ (CPOS_BITS - 1)
    IN ((v + half) % (2 * half)) - half

Xor(a, b) == (a /\ ~b) \/ (~a /\ b)

(* ------------------------------ __getch ------------------------------- *)
\* entry of __getch(e) in thread t: the frame is fresh
GetchEntry(t, e) ==
    /\ pc' = [pc EXCEPT ![t] = "capture"]
    /\ echo' = [echo EXCEPT ![t] = e]
    /\ saved' = [saved EXCEPT ![t] = term]
    /\ capFailed' = [capFailed EXCEPT ![t] = FALSE]
    /\ appFailed' = [appFailed EXCEPT ![t] = FALSE]
    /\ oldterm' = [oldterm EXCEPT ![t] = {}]
    /\ newterm' = [newterm EXCEPT ![t] = {}]
    /\ c' = [c EXCEPT ![t] = 0]

\* tcgetattr(STDIN_FILENO, &__oldterm); __newterm = __oldterm;
\* __newterm.c_lflag &= ~ICANON; if (__echo) ... &= ECHO; else ... &= ~ECHO;
Capture(t) ==
    /\ pc[t] = "capture"
    /\ \E m \in tcgetattr(STDIN_FILENO) :
          /\ oldterm' = [oldterm EXCEPT ![t] = m]
          /\ newterm' = [newterm EXCEPT ![t] = DeriveMode(m, echo[t])]
    /\ capFailed' = [capFailed EXCEPT ![t] = ~IsTerminal(STDIN_FILENO)]
    /\ stale' = (stale \/ \E u \in Threads \ {t} : pc[u] \in {"read", "restore"})
    /\ pc' = [pc EXCEPT ![t] = "apply"]
    /\ UNCHANGED <<term, termVars, stdin, out, inlog, echo, c, saved, appFailed,
                   whereVars, callVars, query, restVars>>

\* Apply, had it named the wrong descriptor: tcsetattr(STDOUT_FILENO, ...)
ApplyOnStdout(t) ==
    /\ pc[t] = "apply"
    /\ term' = tcsetattr(STDOUT_FILENO, newterm[t])
    /\ appFailed' = [appFailed EXCEPT ![t] = ~IsTerminal(STDOUT_FILENO)]
    /\ pc' = [pc EXCEPT ![t] = "read"]
    /\ UNCHANGED <<termVars, stdin, out, inlog, echo, oldterm, newterm, c, saved,
                   capFailed, whereVars, callVars, stale, query, restVars>>

\* tcsetattr(STDIN_FILENO, TCSANOW, &__newterm)
Apply(t) ==
    /\ pc[t] = "apply"
    /\ term' = tcsetattr(STDIN_FILENO, newterm[t])
    /\ appFailed' = [appFailed EXCEPT ![t] = ~IsTerminal(STDIN_FILENO)]
    /\ pc' = [pc EXCEPT ![t] = "read"]
    /\ UNCHANGED <<termVars, stdin, out, inlog, echo, oldterm, newterm, c, saved,
                   capFailed, whereVars, callVars, stale, query, restVars>>

\* Read, had it left the character it returns in the stream
ReadWithoutConsuming(t) ==
    /\ pc[t] = "read"
    /\ c' = [c EXCEPT ![t] = IF stdin # <<>> THEN Head(stdin) ELSE EOF]
    /\ stdin' = stdin
    /\ nreads' = [nreads EXCEPT ![t] = IF wpc[t] = "none" THEN 0 ELSE @ + 1]
    /\ pc' = [pc EXCEPT ![t] = "restore"]
    /\ UNCHANGED <<term, termVars, out, inlog, echo, oldterm, newterm, saved,
                   capFailed, appFailed, wpc, h1, h2, x, y, px, py, lx, ly,
                   stored, callVars, stale, query, restVars>>

\* __c = getchar(): the next pending character, or EOF when there is none
Read(t) ==
    /\ pc[t] = "read"
    /\ IF stdin # <<>>
         THEN /\ c' = [c EXCEPT ![t] = Head(stdin)]
              /\ stdin' = Tail(stdin)
         ELSE /\ c' = [c EXCEPT ![t] = EOF]
              /\ stdin' = stdin
    /\ nreads' = [nreads EXCEPT ![t] = IF wpc[t] = "none" THEN 0 ELSE @ + 1]
    /\ pc' = [pc EXCEPT ![t] = "restore"]
    /\ UNCHANGED <<term, termVars, out, inlog, echo, oldterm, newterm, saved,
                   capFailed, appFailed, wpc, h1, h2, x, y, px, py, lx, ly,
                   stored, callVars, stale, query, restVars>>

\* the user presses key k while a getch / getche waits on the terminal with
\* nothing pending: the terminal echoes it if its ECHO flag is on
KeyPress(k) ==
    /\ stdinTty
    /\ stdin = <<>>
    /\ \E t \in Threads : pc[t] = "read" /\ wpc[t] = "none"
    /\ stdin' = <<k>>
    /\ inlog' = Append(inlog, k)
    /\ out' = IF ECHO \in term THEN Append(out, k) ELSE out
    /\ UNCHANGED <<term, termVars, pc, frameVars, whereVars, callVars, stale, query, restVars>>

\* Restore, had it written back the modified mode
RestoreModified(t) ==
    /\ pc[t] = "restore"
    /\ term' = tcsetattr(STDIN_FILENO, newterm[t])
    /\ pc' = [pc EXCEPT ![t] = "ret"]
    /\ UNCHANGED <<termVars, stdin, out, inlog, frameVars, whereVars, callVars, stale, query, restVars>>

\* Restore, had it been left out
RestoreSkipped(t) ==
    /\ pc[t] = "restore"
    /\ pc' = [pc EXCEPT ![t] = "ret"]
    /\ UNCHANGED <<term, termVars, stdin, out, inlog, frameVars, whereVars, callVars, stale, query, restVars>>

\* Restore, had it set the usual mode of a terminal
RestoreCooked(t) ==
    /\ pc[t] = "restore"
    /\ term' = tcsetattr(STDIN_FILENO, Flags)
    /\ pc' = [pc EXCEPT ![t] = "ret"]
    /\ UNCHANGED <<termVars, stdin, out, inlog, frameVars, whereVars, callVars, stale, query, restVars>>

\* Restore, had it discarded pending input: tcsetattr(..., TCSAFLUSH, ...)
RestoreFlushes(t) ==
    /\ pc[t] = "restore"
    /\ term' = tcsetattr(STDIN_FILENO, oldterm[t])
    /\ stdin' = IF IsTerminal(STDIN_FILENO) THEN <<>> ELSE stdin
    /\ pc' = [pc EXCEPT ![t] = "ret"]
    /\ UNCHANGED <<termVars, out, inlog, frameVars, whereVars, callVars, stale, query, restVars>>

\* tcsetattr(STDIN_FILENO, TCSANOW, &__oldterm)
Restore(t) ==
    /\ pc[t] = "restore"
    /\ term' = tcsetattr(STDIN_FILENO, oldterm[t])
    /\ pc' = [pc EXCEPT ![t] = "ret"]
    /\ UNCHANGED <<termVars, stdin, out, inlog, frameVars, whereVars, callVars, stale, query, restVars>>

(* ------------------------- getch / getche ----------------------------- *)
\* the characters read from standard input since the current API call began
Consumed == SubSeq(inlog, 1, Len(inlog) - Len(stdin))

QueryApis == {"wherexy", "wherex", "wherey"}

\* the variables __px and __py of thread t's query point to: the caller's for
\* wherexy, the wrapper's locals for wherex and wherey
AtPx(t) == IF query[t] = "wherexy" THEN px[t] ELSE lx[t]
AtPy(t) == IF query[t] = "wherexy" THEN py[t] ELSE ly[t]

\* bookkeeping of an API call that starts in thread t
BeginCall(t, f) ==
    /\ pc[t] = "idle"
    /\ calls[t] < MaxCalls
    /\ calls' = [calls EXCEPT ![t] = @ + 1]
    /\ api' = [api EXCEPT ![t] = f]
    /\ prev' = [prev EXCEPT ![t] = [api |-> api[t],
                                     consumed |-> IF api[t] \in QueryApis THEN Consumed ELSE <<>>,
                                     xy |-> <<AtPx(t), AtPy(t)>>,
                                     result |-> result[t],
                                     caller |-> <<px[t], py[t]>>,
                                     mode |-> term,
                                     status |-> fl]]
    /\ out' = <<>>
    /\ inlog' = stdin

\* getch(): return __getch(GETCH_NO_ECHO)
getch(t) ==
    /\ BeginCall(t, "getch")
    /\ GetchEntry(t, GETCH_NO_ECHO)
    /\ UNCHANGED <<term, termVars, stdin, whereVars, result, stale, query, restVars>>

\* getche(): return __getch(GETCH_USE_ECHO)
getche(t) ==
    /\ BeginCall(t, "getche")
    /\ GetchEntry(t, GETCH_USE_ECHO)
    /\ UNCHANGED <<term, termVars, stdin, whereVars, result, stale, query, restVars>>

\* return __c, to the caller of getch / getche
GetchReturn(t) ==
    /\ pc[t] = "ret"
    /\ wpc[t] = "none"
    /\ result' = [result EXCEPT ![t] = c[t]]
    /\ pc' = [pc EXCEPT ![t] = "idle"]
    /\ UNCHANGED <<term, termVars, stdin, out, inlog, frameVars, whereVars,
                   api, calls, prev, stale, query, restVars>>

(* --------------------------- __whereis_xy ----------------------------- *)
\* wherexy(px, py): __whereis_xy(px, py)
wherexy(t) ==
    /\ BeginCall(t, "wherexy")
    /\ query' = [query EXCEPT ![t] = "wherexy"]
    /\ pc' = [pc EXCEPT ![t] = "request"]
    /\ UNCHANGED <<term, termVars, stdin, frameVars, whereVars, result, stale, restVars>>

\* wherex(): cpos_t __x = 0, __y = 0; __whereis_xy(&__x, &__y);
wherex(t) ==
    /\ BeginCall(t, "wherex")
    /\ query' = [query EXCEPT ![t] = "wherex"]
    /\ lx' = [lx EXCEPT ![t] = 0]
    /\ ly' = [ly EXCEPT ![t] = 0]
    /\ pc' = [pc EXCEPT ![t] = "request"]
    /\ UNCHANGED <<term, termVars, stdin, frameVars, wpc, h1, h2, x, y, px, py,
                   nreads, stored, result, stale, restVars>>

\* wherey(): cpos_t __x = 0, __y = 0; __whereis_xy(&__x, &__y);
wherey(t) ==
    /\ BeginCall(t, "wherey")
    /\ query' = [query EXCEPT ![t] = "wherey"]
    /\ lx' = [lx EXCEPT ![t] = 0]
    /\ ly' = [ly EXCEPT ![t] = 0]
    /\ pc' = [pc EXCEPT ![t] = "request"]
    /\ UNCHANGED <<term, termVars, stdin, frameVars, wpc, h1, h2, x, y, px, py,
                   nreads, stored, result, stale, restVars>>

\* WhereReturn, had the header check stored what had been read so far
WhereReturnStores(t, didStore) ==
    /\ IF query[t] = "wherexy"
         THEN /\ px' = [px EXCEPT ![t] = x[t]]
              /\ py' = [py EXCEPT ![t] = y[t]]
              /\ UNCHANGED <<lx, ly, result>>
         ELSE /\ lx' = [lx EXCEPT ![t] = x[t]]
              /\ ly' = [ly EXCEPT ![t] = y[t]]
              /\ result' = [result EXCEPT ![t] = IF query[t] = "wherex" THEN x[t] ELSE y[t]]
              /\ UNCHANGED <<px, py>>
    /\ stored' = [stored EXCEPT ![t] = didStore]
    /\ wpc' = [wpc EXCEPT ![t] = "none"]
    /\ pc' = [pc EXCEPT ![t] = IF api[t] \in QueryApis THEN "idle" ELSE "back"]
    /\ UNCHANGED frameVars

\* the end of __whereis_xy and of its wrapper: *__px = x; *__py = y; when the
\* reply was parsed (didStore), nothing stored when the header check
\* returned; wherex then returns __x, wherey returns __y, to the program or
\* ("back") to the library function or test program that called it
WhereReturn(t, didStore) ==
    LET nx == IF didStore THEN x[t] ELSE AtPx(t)
        ny == IF didStore THEN y[t] ELSE AtPy(t)
    IN /\ IF query[t] = "wherexy"
            THEN /\ px' = [px EXCEPT ![t] = nx]
                 /\ py' = [py EXCEPT ![t] = ny]
                 /\ UNCHANGED <<lx, ly, result>>
            ELSE /\ lx' = [lx EXCEPT ![t] = nx]
                 /\ ly' = [ly EXCEPT ![t] = ny]
                 /\ result' = [result EXCEPT ![t] = IF query[t] = "wherex" THEN nx ELSE ny]
                 /\ UNCHANGED <<px, py>>
       /\ stored' = [stored EXCEPT ![t] = didStore]
       /\ wpc' = [wpc EXCEPT ![t] = "none"]
       /\ pc' = [pc EXCEPT ![t] = IF api[t] \in QueryApis THEN "idle" ELSE "back"]
       /\ UNCHANGED frameVars

\* WhereLocal, had x and y been static
WhereLocalStatic(old) == old

\* cpos_t x = 0, y = 0: the value a local starts with, whatever it held before
WhereLocal(old) == 0

\* cpos_t x = 0, y = 0; printf("%s[6n", ESC); the terminal answers on its
\* input, which the program reads only if standard input is the terminal;
\* then the first __getch(GETCH_NO_ECHO) of the header check
WhereRequest(t) ==
    /\ pc[t] = "request"
    /\ x' = [x EXCEPT ![t] = WhereLocal(x[t])]
    /\ y' = [y EXCEPT ![t] = WhereLocal(y[t])]
    /\ out' = out \o DSR
    /\ LET answer == IF stdinTty THEN Reply(cursor, fault) ELSE <<>>
       IN /\ stdin' = stdin \o answer
          /\ inlog' = inlog \o answer
    /\ wpc' = [wpc EXCEPT ![t] = "hdr1"]
    /\ nreads' = [nreads EXCEPT ![t] = 0]
    /\ stored' = [stored EXCEPT ![t] = FALSE]
    /\ h1' = [h1 EXCEPT ![t] = 0]
    /\ h2' = [h2 EXCEPT ![t] = 0]
    /\ GetchEntry(t, GETCH_NO_ECHO)
    /\ UNCHANGED <<term, termVars, px, py, lx, ly, callVars, stale, query, restVars>>

\* WhereHeader1, had it asked the terminal again
WhereHeader1Retry(t) ==
    /\ pc[t] = "ret"
    /\ wpc[t] = "hdr1"
    /\ h1' = [h1 EXCEPT ![t] = c[t]]
    /\ wpc' = [wpc EXCEPT ![t] = "hdr2"]
    /\ out' = out \o DSR
    /\ GetchEntry(t, GETCH_NO_ECHO)
    /\ UNCHANGED <<term, termVars, stdin, inlog, h2, x, y, px, py, lx, ly,
                   nreads, stored, callVars, stale, query, restVars>>

\* the first character of the header has been read; the second __getch
WhereHeader1(t) ==
    /\ pc[t] = "ret"
    /\ wpc[t] = "hdr1"
    /\ h1' = [h1 EXCEPT ![t] = c[t]]
    /\ wpc' = [wpc EXCEPT ![t] = "hdr2"]
    /\ GetchEntry(t, GETCH_NO_ECHO)
    /\ UNCHANGED <<term, termVars, stdin, out, inlog, h2, x, y, px, py, lx, ly,
                   nreads, stored, callVars, stale, query, restVars>>

\* the operands of ^ are evaluated in either order: the character read
\* first is the left operand's ("LR") or the right operand's ("RL")
EvalOrders == {"LR", "RL"}

\* (__getch(GETCH_NO_ECHO) != 0x1B) ^ (__getch(GETCH_NO_ECHO) != 0x5B)
HeaderRejected(first, second, order) ==
    LET left  == IF order = "LR" THEN first ELSE second
        right == IF order = "LR" THEN second ELSE first
    IN Xor(left # CHR_ESC, right # CHR_LBRACKET)

\* the second character of the header has been read: return, leaving *__px
\* and *__py alone, or go on to the row loop
WhereHeader2(t) ==
    /\ pc[t] = "ret"
    /\ wpc[t] = "hdr2"
    /\ h2' = [h2 EXCEPT ![t] = c[t]]
    /\ \E order \in EvalOrders :
          IF HeaderRejected(h1[t], c[t], order)
            THEN WhereReturn(t, FALSE)
            ELSE /\ wpc' = [wpc EXCEPT ![t] = "row"]
                 /\ GetchEntry(t, GETCH_NO_ECHO)
                 /\ UNCHANGED <<px, py, lx, ly, stored, result>>
    /\ UNCHANGED <<term, termVars, stdin, out, inlog, h1, x, y, nreads,
                   api, calls, prev, stale, query, restVars>>

\* Accumulate, had it not shifted the digits read so far
AccumulateNoShift(acc, temp) == ToCpos(acc + (temp - CHR_ZERO))

\* acc = acc * 10 + (temp - '0'), in int, stored in a cpos_t
Accumulate(acc, temp) == ToCpos(acc * 10 + (temp - CHR_ZERO))

\* WhereRow, had it given up at the end of the input
WhereRowGivesUp(t) ==
    /\ pc[t] = "ret"
    /\ wpc[t] = "row"
    /\ nreads[t] < MaxReads
    /\ IF c[t] = EOF
         THEN /\ WhereReturn(t, FALSE)
              /\ UNCHANGED <<y, api, calls, prev>>
         ELSE /\ IF c[t] # CHR_SEMICOLON
                   THEN /\ y' = [y EXCEPT ![t] = Accumulate(y[t], c[t])]
                        /\ wpc' = wpc
                   ELSE /\ y' = y
                        /\ wpc' = [wpc EXCEPT ![t] = "col"]
              /\ GetchEntry(t, GETCH_NO_ECHO)
              /\ UNCHANGED <<px, py, lx, ly, stored, callVars>>
    /\ UNCHANGED <<term, termVars, stdin, out, inlog, h1, h2, x,
                   nreads, stale, query, restVars>>

\* while ((temp = __getch(GETCH_NO_ECHO)) != 0x3B) y = y * 10 + (temp - '0');
WhereRow(t) ==
    /\ pc[t] = "ret"
    /\ wpc[t] = "row"
    /\ nreads[t] < MaxReads
    /\ IF c[t] # CHR_SEMICOLON
         THEN /\ y' = [y EXCEPT ![t] = Accumulate(y[t], c[t])]
              /\ wpc' = wpc
         ELSE /\ y' = y
              /\ wpc' = [wpc EXCEPT ![t] = "col"]
    /\ GetchEntry(t, GETCH_NO_ECHO)
    /\ UNCHANGED <<term, termVars, stdin, out, inlog, h1, h2, x, px, py, lx, ly,
                   nreads, stored, callVars, stale, query, restVars>>

\* while ((temp = __getch(GETCH_NO_ECHO)) != 0x52) x = x * 10 + (temp - '0');
\* then *__px = x; *__py = y;
WhereCol(t) ==
    /\ pc[t] = "ret"
    /\ wpc[t] = "col"
    /\ IF c[t] # CHR_R
         THEN /\ nreads[t] < MaxReads
              /\ x' = [x EXCEPT ![t] = Accumulate(x[t], c[t])]
              /\ GetchEntry(t, GETCH_NO_ECHO)
              /\ UNCHANGED <<wpc, px, py, lx, ly, stored, result>>
         ELSE /\ WhereReturn(t, TRUE)
              /\ UNCHANGED x
    /\ UNCHANGED <<term, termVars, stdin, out, inlog, h1, h2, y, nreads,
                   api, calls, prev, stale, query, restVars>>

\* the program assigns its variables x and y, which it may pass to wherexy
ProgramSets(t, vx, vy) ==
    /\ pc[t] = "idle"
    /\ calls[t] < MaxCalls
    /\ px' = [px EXCEPT ![t] = vx]
    /\ py' = [py EXCEPT ![t] = vy]
    /\ UNCHANGED <<term, termVars, stdin, out, inlog, pc, frameVars, wpc, h1, h2,
                   x, y, lx, ly, nreads, stored, callVars, stale, query, restVars>>

(* ------------------------------- kbhit -------------------------------- *)
\* kbhit(): the frame is fresh
kbhit(t) ==
    /\ BeginCall(t, "kbhit")
    /\ oldt' = [oldt EXCEPT ![t] = {}]
    /\ newt' = [newt EXCEPT ![t] = {}]
    /\ ch' = [ch EXCEPT ![t] = 0]
    /\ oldf' = [oldf EXCEPT ![t] = {}]
    /\ pc' = [pc EXCEPT ![t] = "kcapture"]
    /\ UNCHANGED <<term, termVars, stdin, frameVars, whereVars, result, stale, query,
                   fl, lineVars, bufVars, progVars>>

\* tcgetattr(STDIN_FILENO, &oldt); newt = oldt; newt.c_lflag &= ~(ICANON | ECHO);
KbhitCapture(t) ==
    /\ pc[t] = "kcapture"
    /\ \E m \in tcgetattr(STDIN_FILENO) :
          /\ oldt' = [oldt EXCEPT ![t] = m]
          /\ newt' = [newt EXCEPT ![t] = m \ {ICANON, ECHO}]
    /\ pc' = [pc EXCEPT ![t] = "kapply"]
    /\ UNCHANGED <<term, termVars, stdin, out, inlog, frameVars, whereVars, callVars,
                   stale, query, ch, oldf, fl, lineVars, bufVars, progVars>>

\* tcsetattr(STDIN_FILENO, TCSANOW, &newt)
KbhitApply(t) ==
    /\ pc[t] = "kapply"
    /\ term' = tcsetattr(STDIN_FILENO, newt[t])
    /\ pc' = [pc EXCEPT ![t] = "knonblock"]
    /\ UNCHANGED <<termVars, stdin, out, inlog, frameVars, whereVars, callVars,
                   stale, query, restVars>>

\* oldf = fcntl(STDIN_FILENO, F_GETFL, 0); fcntl(STDIN_FILENO, F_SETFL, oldf | O_NONBLOCK);
KbhitNonblock(t) ==
    /\ pc[t] = "knonblock"
    /\ oldf' = [oldf EXCEPT ![t] = fl]
    /\ fl' = fl \cup {O_NONBLOCK}
    /\ pc' = [pc EXCEPT ![t] = "kread"]
    /\ UNCHANGED <<term, termVars, stdin, out, inlog, frameVars, whereVars, callVars,
                   stale, query, oldt, newt, ch, lineVars, bufVars, progVars>>

\* ch = getchar(): the next pending character; with nothing pending the
\* non-blocking read fails and getchar returns EOF
KbhitRead(t) ==
    /\ pc[t] = "kread"
    /\ IF stdin # <<>>
         THEN /\ ch' = [ch EXCEPT ![t] = Head(stdin)]
              /\ stdin' = Tail(stdin)
         ELSE /\ ch' = [ch EXCEPT ![t] = EOF]
              /\ stdin' = stdin
    /\ pc' = [pc EXCEPT ![t] = "krestore"]
    /\ UNCHANGED <<term, termVars, out, inlog, frameVars, whereVars, callVars,
                   stale, query, oldt, newt, oldf, fl, lineVars, bufVars, progVars>>

\* KbhitRestore, had it left the file status flags as they were set
KbhitRestoreModeOnly(t) ==
    /\ pc[t] = "krestore"
    /\ term' = tcsetattr(STDIN_FILENO, oldt[t])
    /\ fl' = fl
    /\ pc' = [pc EXCEPT ![t] = "kret"]
    /\ UNCHANGED <<termVars, stdin, out, inlog, frameVars, whereVars, callVars,
                   stale, query, oldt, newt, ch, oldf, lineVars, bufVars, progVars>>

\* tcsetattr(STDIN_FILENO, TCSANOW, &oldt); fcntl(STDIN_FILENO, F_SETFL, oldf);
KbhitRestore(t) ==
    /\ pc[t] = "krestore"
    /\ term' = tcsetattr(STDIN_FILENO, oldt[t])
    /\ fl' = oldf[t]
    /\ pc' = [pc EXCEPT ![t] = "kret"]
    /\ UNCHANGED <<termVars, stdin, out, inlog, frameVars, whereVars, callVars,
                   stale, query, oldt, newt, ch, oldf, lineVars, bufVars, progVars>>

\* KbhitReturn, had it not pushed the character back
KbhitReturnNoUnget(t) ==
    /\ pc[t] = "kret"
    /\ result' = [result EXCEPT ![t] = IF ch[t] # EOF THEN 1 ELSE 0]
    /\ pc' = [pc EXCEPT ![t] = "idle"]
    /\ UNCHANGED <<term, termVars, stdin, out, inlog, frameVars, whereVars,
                   api, calls, prev, stale, query, restVars>>

\* if (ch != EOF) { ungetc(ch, stdin); return 1; } return 0;
KbhitReturn(t) ==
    /\ pc[t] = "kret"
    /\ IF ch[t] # EOF
         THEN /\ stdin' = <<ch[t]>> \o stdin
              /\ result' = [result EXCEPT ![t] = 1]
         ELSE /\ stdin' = stdin
              /\ result' = [result EXCEPT ![t] = 0]
    /\ pc' = [pc EXCEPT ![t] = "idle"]
    /\ UNCHANGED <<term, termVars, out, inlog, frameVars, whereVars,
                   api, calls, prev, stale, query, restVars>>

\* the user presses key k while the program is between two calls: the
\* character waits on the terminal, echoed if the ECHO flag is on
TypeAhead(k) ==
    /\ stdinTty
    /\ \A t \in Threads : pc[t] = "idle"
    /\ Len(stdin) < MaxInput
    /\ stdin' = Append(stdin, k)
    /\ inlog' = Append(inlog, k)
    /\ out' = IF ECHO \in term THEN Append(out, k) ELSE out
    /\ UNCHANGED <<term, termVars, pc, frameVars, whereVars, callVars, stale, query,
                   restVars>>

(* ------------------------- gotoxy / dellines -------------------------- *)
\* the digits printf("%u") writes for a cpos_t argument, which is passed as
\* an int: the value itself, or 2^32 + v = 42949 * 10^5 + (67296 + v) for a
\* negative one
DecUnsigned(v) == IF v >= 0 THEN Dec(v) ELSE Dec(42949) \o Dec(67296 + v)

\* gotoxy, had it printed the column before the line
gotoxySwapped(ax, ay) ==
    <<CHR_ESC, CHR_LBRACKET>> \o DecUnsigned(ax) \o <<CHR_SEMICOLON>> \o DecUnsigned(ay)
        \o <<CHR_H>>

\* what gotoxy(ax, ay) prints: printf("%s[%u;%uH", ESC, y, x)
gotoxy(ax, ay) ==
    <<CHR_ESC, CHR_LBRACKET>> \o DecUnsigned(ay) \o <<CHR_SEMICOLON>> \o DecUnsigned(ax)
        \o <<CHR_H>>

\* what delline() prints: printf("%s[2K\r", ESC)
delline == <<CHR_ESC, CHR_LBRACKET, CHR_TWO, CHR_K, CHR_CR>>

\* the number the terminal reads from a parameter of a control sequence,
\* digit by digit, kept no larger than any screen dimension needs
RECURSIVE Param(_)
Param(ds) ==
    IF ds = <<>> THEN 0
    ELSE LET n == Param(SubSeq(ds, 1, Len(ds) - 1)) * 10 + (ds[Len(ds)] - CHR_ZERO)
         IN IF n > rows + MaxCol THEN rows + MaxCol ELSE n

\* a row or column parameter as the terminal takes it: 0 means 1, and a value
\* beyond the screen means the last line or column
Clamp(v, last) == IF v < 1 THEN 1 ELSE IF v > last THEN last ELSE v

\* what the terminal does with a control sequence the library writes, its
\* cursor being at cur: ESC [ row ; col H moves the cursor, ESC [ 2 K CR
\* erases the cursor's line and returns to its first column
Display(cur, seq) ==
    IF seq[Len(seq)] = CHR_H
      THEN LET semi == CHOOSE k \in 1 .. Len(seq) : seq[k] = CHR_SEMICOLON
               r == Param(SubSeq(seq, 3, semi - 1))
               col == Param(SubSeq(seq, semi + 1, Len(seq) - 1))
           IN [cursor |-> <<Clamp(r, rows), Clamp(col, MaxCol)>>, erased |-> {}]
      ELSE [cursor |-> <<cur[1], 1>>, erased |-> {cur[1]}]

\* a ^ b on non-negative values
RECURSIVE BitXor(_, _)
BitXor(a, b) ==
    IF a = 0 /\ b = 0 THEN 0
    ELSE (((a % 2) + (b % 2)) % 2) + 2 * BitXor(a \div 2, b \div 2)

\* a library function or test program calls wherex() or wherey(), or
\* wherexy on its own variables: cpos_t __x = 0, __y = 0; __whereis_xy(...)
CallQuery(t, q) ==
    /\ query' = [query EXCEPT ![t] = q]
    /\ lx' = [lx EXCEPT ![t] = IF q = "wherexy" THEN @ ELSE 0]
    /\ ly' = [ly EXCEPT ![t] = IF q = "wherexy" THEN @ ELSE 0]
    /\ pc' = [pc EXCEPT ![t] = "request"]

\* dellines(f, g): the range check, the swap, and the call of wherey()
dellines(t, f, g) ==
    /\ BeginCall(t, "dellines")
    /\ entry' = [cursor |-> cursor, from |-> f, to |-> g, deleted |-> 0]
    /\ cleared' = {}
    /\ i' = [i EXCEPT ![t] = 0]
    /\ orig_y' = [orig_y EXCEPT ![t] = 0]
    /\ IF f < 0 \/ g < 0
         THEN /\ err' = TRUE
              /\ from' = [from EXCEPT ![t] = f]
              /\ to' = [to EXCEPT ![t] = g]
              /\ UNCHANGED <<pc, query, lx, ly, dpc>>
         ELSE /\ err' = FALSE
              /\ IF f > g
                   THEN LET f1 == BitXor(f, g)
                            g1 == BitXor(g, f1)
                            f2 == BitXor(f1, g1)
                        IN /\ from' = [from EXCEPT ![t] = f2]
                           /\ to' = [to EXCEPT ![t] = g1]
                   ELSE /\ from' = [from EXCEPT ![t] = f]
                        /\ to' = [to EXCEPT ![t] = g]
              /\ CallQuery(t, "wherey")
              /\ dpc' = [dpc EXCEPT ![t] = "origy"]
    /\ UNCHANGED <<term, termVars, stdin, frameVars, wpc, h1, h2, x, y, px, py,
                   nreads, stored, result, stale, kbVars, rows, bufVars, progVars>>

\* cpos_t orig_y = wherey(); gotoy(from) calls wherex()
DlOrigY(t) ==
    /\ pc[t] = "back"
    /\ dpc[t] = "origy"
    /\ orig_y' = [orig_y EXCEPT ![t] = result[t]]
    /\ CallQuery(t, "wherex")
    /\ dpc' = [dpc EXCEPT ![t] = "first"]
    /\ UNCHANGED <<term, termVars, stdin, out, inlog, frameVars, wpc, h1, h2, x, y,
                   px, py, nreads, stored, callVars, stale, kbVars, from, to, i,
                   rows, cleared, err, entry, bufVars, progVars>>

\* gotoy(from): gotoxy(wherex(), from); i = from; the loop test; gotoy(i),
\* or gotoy(orig_y) after the loop, calls wherex()
DlFirst(t) ==
    /\ pc[t] = "back"
    /\ dpc[t] = "first"
    /\ LET seq == gotoxy(result[t], from[t])
       IN /\ out' = out \o seq
          /\ cursor' = Display(cursor, seq).cursor
    /\ i' = [i EXCEPT ![t] = from[t]]
    /\ CallQuery(t, "wherex")
    /\ dpc' = [dpc EXCEPT ![t] = IF from[t] <= to[t] THEN "loop" ELSE "last"]
    /\ UNCHANGED <<term, term0, stdinTty, fault, stdin, inlog, frameVars, wpc, h1, h2,
                   x, y, px, py, nreads, stored, callVars, stale, kbVars, from, to,
                   orig_y, rows, cleared, err, entry, bufVars, progVars>>

\* the loop body: gotoy(i): gotoxy(wherex(), i); delline(); then i++, the
\* loop test, and gotoy(i), or gotoy(orig_y) after the loop, calls wherex()
DlLoop(t) ==
    /\ pc[t] = "back"
    /\ dpc[t] = "loop"
    /\ entry.deleted < MaxDeletes
    /\ LET seq == gotoxy(result[t], i[t])
           moved == Display(cursor, seq)
           erased == Display(moved.cursor, delline)
       IN /\ out' = out \o seq \o delline
          /\ cursor' = erased.cursor
          /\ cleared' = cleared \cup erased.erased
    /\ entry' = [entry EXCEPT !.deleted = @ + 1]
    /\ i' = [i EXCEPT ![t] = ToCpos(@ + 1)]
    /\ CallQuery(t, "wherex")
    /\ dpc' = [dpc EXCEPT ![t] = IF i'[t] <= to[t] THEN "loop" ELSE "last"]
    /\ UNCHANGED <<term, term0, stdinTty, fault, stdin, inlog, frameVars, wpc, h1, h2,
                   x, y, px, py, nreads, stored, callVars, stale, kbVars, from, to,
                   orig_y, rows, err, bufVars, progVars>>

\* gotoy(orig_y): gotoxy(wherex(), orig_y); dellines returns
DlLast(t) ==
    /\ pc[t] = "back"
    /\ dpc[t] = "last"
    /\ LET seq == gotoxy(result[t], orig_y[t])
       IN /\ out' = out \o seq
          /\ cursor' = Display(cursor, seq).cursor
    /\ dpc' = [dpc EXCEPT ![t] = "none"]
    /\ pc' = [pc EXCEPT ![t] = "idle"]
    /\ UNCHANGED <<term, term0, stdinTty, fault, stdin, inlog, frameVars, whereVars,
                   callVars, stale, query, kbVars, from, to, i, orig_y, rows, cleared,
                   err, entry, bufVars, progVars>>

(* -------------------------------- cgets ------------------------------- *)
\* the characters fgets takes from the stream in: up to and including the
\* first newline, no more than room of them
RECURSIVE FgetsLine(_, _)
FgetsLine(in, room) ==
    IF room <= 0 \/ in = <<>> THEN <<>>
    ELSE IF Head(in) = CHR_LF THEN <<CHR_LF>>
    ELSE <<Head(in)>> \o FgetsLine(Tail(in), room - 1)

\* the array b with the characters of s stored from its first byte on
StoreString(b, s) == [k \in 1 .. Len(b) |-> IF k <= Len(s) THEN s[k] ELSE b[k]]

\* the program sets buffer[0] = n and calls cgets(buffer):
\* maxLength = (unsigned char) buffer[0]; fgets(buffer, maxLength, stdin),
\* which reads nothing for maxLength <= 1 and returns NULL for maxLength <= 0
\* or when the stream is at its end; then the scan from buffer + 1 for the
\* first '\0' or '\n', which is overwritten with '\0'.  A scan that leaves
\* the array is undefined: it ends somewhere outside, or the program stops.
cgets(t, n) ==
    /\ BeginCall(t, "cgets")
    /\ LET line == IF n <= 1 THEN <<>> ELSE FgetsLine(stdin, n - 1)
           failed == n <= 0 \/ (n > 1 /\ line = <<>>)
           given == [buffer EXCEPT ![1] = n]
           read == StoreString(given, line \o <<CHR_NUL>>)
           stops == {k \in 1 .. (Len(read) - 1) : read[k + 1] \in {CHR_NUL, CHR_LF}}
           stop == CHOOSE k \in stops : \A m \in stops : k <= m
       IN IF failed
            THEN /\ buffer' = given
                 /\ stdin' = stdin
                 /\ cret' = [value |-> "NULL", max |-> n]
                 /\ oob' = FALSE
            ELSE /\ stdin' = SubSeq(stdin, Len(line) + 1, Len(stdin))
                 /\ IF stops = {}
                      THEN /\ buffer' = read
                           /\ cret' \in {[value |-> "buffer", max |-> n],
                                         [value |-> "stopped", max |-> n]}
                           /\ oob' = TRUE
                      ELSE /\ buffer' = [read EXCEPT ![stop + 1] = CHR_NUL]
                           /\ cret' = [value |-> "buffer", max |-> n]
                           /\ oob' = (stop >= n)
    /\ UNCHANGED <<term, termVars, pc, frameVars, whereVars, result, stale, query,
                   kbVars, lineVars, progVars>>

(* --------------------------- test_coord.c ----------------------------- *)
\* main of test_coord.c, without the text it prints: the calls it makes of
\* the library, in its order.  int x = wherex(), ...
TcStart(t) ==
    /\ pc[t] = "idle"
    /\ api[t] = "none"
    /\ mpc = "start"
    /\ mpc' = "x"
    /\ CallQuery(t, "wherex")
    /\ UNCHANGED <<term, termVars, stdin, out, inlog, frameVars, wpc, h1, h2, x, y,
                   px, py, nreads, stored, callVars, stale, kbVars, lineVars, bufVars,
                   cursor0>>

\* ... x = wherex(), y = wherey();
TcX(t) ==
    /\ pc[t] = "back"
    /\ mpc = "x"
    /\ px' = [px EXCEPT ![t] = result[t]]
    /\ mpc' = "y"
    /\ CallQuery(t, "wherey")
    /\ UNCHANGED <<term, termVars, stdin, out, inlog, frameVars, wpc, h1, h2, x, y,
                   py, nreads, stored, callVars, stale, kbVars, lineVars, bufVars,
                   cursor0>>

\* y = wherey(); gotoxy(20, 1), to any place (ax, ay)
TcY(t, ax, ay) ==
    /\ pc[t] = "back"
    /\ mpc = "y"
    /\ py' = [py EXCEPT ![t] = result[t]]
    /\ mpc' = "away"
    /\ LET seq == gotoxy(ax, ay)
       IN /\ out' = out \o seq
          /\ cursor' = Display(cursor, seq).cursor
    /\ UNCHANGED <<term, term0, stdinTty, fault, stdin, inlog, pc, frameVars, wpc,
                   h1, h2, x, y, px, lx, ly, nreads, stored, callVars, stale, query,
                   kbVars, lineVars, bufVars, cursor0>>

\* gotoxy(x, y): back to the position saved
TcBack(t) ==
    /\ pc[t] = "back"
    /\ mpc = "away"
    /\ mpc' = "home"
    /\ LET seq == gotoxy(px[t], py[t])
       IN /\ out' = out \o seq
          /\ cursor' = Display(cursor, seq).cursor
    /\ UNCHANGED <<term, term0, stdinTty, fault, stdin, inlog, pc, frameVars,
                   whereVars, callVars, stale, query, kbVars, lineVars, bufVars,
                   cursor0>>

\* wherexy((cpos_t*) &x, (cpos_t*) &y)
TcWherexy(t) ==
    /\ pc[t] = "back"
    /\ mpc = "home"
    /\ mpc' = "asked"
    /\ CallQuery(t, "wherexy")
    /\ UNCHANGED <<term, termVars, stdin, out, inlog, frameVars, wpc, h1, h2, x, y,
                   px, py, nreads, stored, callVars, stale, kbVars, lineVars, bufVars,
                   cursor0>>

\* wherexy has returned; return 0
TcDone(t) ==
    /\ pc[t] = "back"
    /\ mpc = "asked"
    /\ mpc' = "done"
    /\ pc' = [pc EXCEPT ![t] = "idle"]
    /\ UNCHANGED <<term, termVars, stdin, out, inlog, frameVars, whereVars, callVars,
                   stale, query, kbVars, lineVars, bufVars, cursor0>>

(* --------------------------- specifications --------------------------- *)
\* the program as the library is meant to be used: one thread
Next ==
    \/ getch(MainThread)
    \/ getche(MainThread)
    \/ wherexy(MainThread)
    \/ wherex(MainThread)
    \/ wherey(MainThread)
    \/ Capture(MainThread)
    \/ Apply(MainThread)
    \/ Read(MainThread)
    \/ Restore(MainThread)
    \/ GetchReturn(MainThread)
    \/ WhereRequest(MainThread)
    \/ WhereHeader1(MainThread)
    \/ WhereHeader2(MainThread)
    \/ WhereRow(MainThread)
    \/ WhereCol(MainThread)
    \/ \E k \in Keys : KeyPress(k)

Spec == Init /\ [][Next]_vars

\* what the program's variables hold before it passes them to wherexy
CallerValues == {0, MaxCol + 5}

\* the same program, its variables x and y holding anything, on a terminal
\* of every kind with the cursor at one position
InitCaller ==
    /\ Init
    /\ stdinTty
    /\ cursor = FaultPosition

NextCaller ==
    \/ Next
    \/ \E vx, vy \in CallerValues : ProgramSets(MainThread, vx, vy)

SpecCaller == InitCaller /\ [][NextCaller]_vars

\* the same program on a terminal in its usual mode, whose user may type
\* before the first call, so that a query can find keys waiting before the
\* reply
InitStream ==
    /\ Init
    /\ stdinTty
    /\ term = Flags
    /\ cursor = FaultPosition

NextStream ==
    \/ Next
    \/ \E k \in Keys : calls[MainThread] = 0 /\ TypeAhead(k)

SpecStream == InitStream /\ [][NextStream]_vars

\* a multi-threaded host: every thread calls getch / getche on the terminal
InitConc ==
    /\ term \in Modes
    /\ term0 = term
    /\ stdinTty = TRUE
    /\ stdin = <<>>
    /\ cursor = FaultPosition
    /\ fault = "ok"
    /\ inlog = stdin
    /\ fl = {}
    /\ rows = MaxRow
    /\ buffer = <<0>>
    /\ InitThreads

\* the calls all threads have made
RECURSIVE SumCalls(_)
SumCalls(T) == IF T = {} THEN 0 ELSE LET t == CHOOSE u \in T : TRUE IN calls[t] + SumCalls(T \ {t})

NextConc ==
    \/ \E t \in Threads : SumCalls(Threads) < MaxConcCalls /\ getch(t)
    \/ \E t \in Threads : SumCalls(Threads) < MaxConcCalls /\ getche(t)
    \/ \E t \in Threads : Capture(t)
    \/ \E t \in Threads : Apply(t)
    \/ \E t \in Threads : Read(t)
    \/ \E t \in Threads : Restore(t)
    \/ \E t \in Threads : GetchReturn(t)
    \/ \E k \in Keys : KeyPress(k)

SpecConc == InitConc /\ [][NextConc]_vars

\* a program that polls the keyboard with kbhit and reads it with getch /
\* getche, while the user types; standard input in any status
InitKbhit ==
    /\ term \in Modes
    /\ term0 = term
    /\ stdinTty \in BOOLEAN
    /\ IF stdinTty THEN stdin = <<>> ELSE stdin \in SeqsUpTo(Keys, MaxInput)
    /\ cursor = FaultPosition
    /\ fault = "ok"
    /\ inlog = stdin
    /\ fl \in SUBSET StatusFlags
    /\ rows = MaxRow
    /\ buffer = <<0>>
    /\ InitThreads

NextKbhit ==
    \/ kbhit(MainThread)
    \/ getch(MainThread)
    \/ getche(MainThread)
    \/ KbhitCapture(MainThread)
    \/ KbhitApply(MainThread)
    \/ KbhitNonblock(MainThread)
    \/ KbhitRead(MainThread)
    \/ KbhitRestore(MainThread)
    \/ KbhitReturn(MainThread)
    \/ Capture(MainThread)
    \/ Apply(MainThread)
    \/ Read(MainThread)
    \/ Restore(MainThread)
    \/ GetchReturn(MainThread)
    \/ \E k \in Keys : KeyPress(k)
    \/ \E k \in Keys : TypeAhead(k)

SpecKbhit == InitKbhit /\ [][NextKbhit]_vars

\* the arguments a program passes to dellines: a negative one, the first
\* lines, and the largest cpos_t
LineArgs == ((0 - 1) .. MaxLine) \cup {CPOS_MAX}
\* the screens of the terminals dellines runs on: a short and a tall one
ScreenRows == {MinRows, MaxRow}

\* a program that calls dellines on a terminal that answers well, with
\* nothing typed; the cursor starts in the first or the last corner of the
\* screen
InitLines ==
    /\ term \in Modes
    /\ term0 = term
    /\ stdinTty = TRUE
    /\ stdin = <<>>
    /\ rows \in ScreenRows
    /\ cursor \in {<<1, 1>>, <<rows, MaxCol>>}
    /\ fault = "ok"
    /\ inlog = stdin
    /\ fl = {}
    /\ buffer = <<0>>
    /\ InitThreads

NextLines ==
    \/ \E f, g \in LineArgs : dellines(MainThread, f, g)
    \/ DlOrigY(MainThread)
    \/ DlFirst(MainThread)
    \/ DlLoop(MainThread)
    \/ DlLast(MainThread)
    \/ WhereRequest(MainThread)
    \/ WhereHeader1(MainThread)
    \/ WhereHeader2(MainThread)
    \/ WhereRow(MainThread)
    \/ WhereCol(MainThread)
    \/ Capture(MainThread)
    \/ Apply(MainThread)
    \/ Read(MainThread)
    \/ Restore(MainThread)

SpecLines == InitLines /\ [][NextLines]_vars

\* the places test_coord.c moves to before it moves back: inside the
\* screen, on its edge and beyond it
GotoArgs == {0, 1, MaxCol, MaxCol + 1}

\* test_coord.c on a terminal that answers well, with nothing typed and the
\* cursor anywhere on the screen
InitCoord ==
    /\ term \in Modes
    /\ term0 = term
    /\ stdinTty = TRUE
    /\ stdin = <<>>
    /\ rows = MaxRow
    /\ cursor \in (1 .. rows) \X (1 .. MaxCol)
    /\ fault = "ok"
    /\ inlog = stdin
    /\ fl = {}
    /\ buffer = <<0>>
    /\ InitThreads

NextCoord ==
    \/ TcStart(MainThread)
    \/ TcX(MainThread)
    \/ \E ax, ay \in GotoArgs : TcY(MainThread, ax, ay)
    \/ TcBack(MainThread)
    \/ TcWherexy(MainThread)
    \/ TcDone(MainThread)
    \/ WhereRequest(MainThread)
    \/ WhereHeader1(MainThread)
    \/ WhereHeader2(MainThread)
    \/ WhereRow(MainThread)
    \/ WhereCol(MainThread)
    \/ Capture(MainThread)
    \/ Apply(MainThread)
    \/ Read(MainThread)
    \/ Restore(MainThread)

SpecCoord == InitCoord /\ [][NextCoord]_vars

\* what a line of input is made of
LineChars == {CHR_A, CHR_LF}
\* what the bytes of an array the program did not set can be
BufChars == {CHR_NUL, CHR_LF, CHR_A}

\* a program that calls cgets on an array of MaxBuf bytes it did not set,
\* with any input waiting
InitCgets ==
    /\ term \in Modes
    /\ term0 = term
    /\ stdinTty \in BOOLEAN
    /\ stdin \in SeqsUpTo(LineChars, MaxInput)
    /\ rows = MaxRow
    /\ cursor = FaultPosition
    /\ fault = "ok"
    /\ inlog = stdin
    /\ fl = {}
    /\ buffer \in [1 .. MaxBuf -> BufChars]
    /\ InitThreads

NextCgets == \E n \in 0 .. MaxBuf : cgets(MainThread, n)

SpecCgets == InitCgets /\ [][NextCgets]_vars

(* ------------------------------- claims ------------------------------- *)
\* thread t has returned from API function f
Returned(t, f) == pc[t] = "idle" /\ api[t] = f

\* thread t has returned from wherexy, wherex or wherey
QueryReturned(t) == pc[t] = "idle" /\ api[t] \in QueryApis

\* what a returned wherex / wherey gave is the coordinate it is named after
ReturnsItsCoordinate(t) ==
    /\ api[t] = "wherex" => result[t] = AtPx(t)
    /\ api[t] = "wherey" => result[t] = AtPy(t)

IsDigit(d) == d \in CHR_ZERO .. (CHR_ZERO + 9)

\* s is ESC [ digits ; digits R
WellFormedReply(s) ==
    /\ Len(s) >= 6
    /\ s[1] = CHR_ESC
    /\ s[2] = CHR_LBRACKET
    /\ s[Len(s)] = CHR_R
    /\ \E k \in 4 .. (Len(s) - 2) :
          /\ s[k] = CHR_SEMICOLON
          /\ \A j \in 3 .. (k - 1) : IsDigit(s[j])
          /\ \A j \in (k + 1) .. (Len(s) - 1) : IsDigit(s[j])

SemicolonAt(s) == CHOOSE k \in 1 .. Len(s) : s[k] = CHR_SEMICOLON
RowDigits(s) == SubSeq(s, 3, SemicolonAt(s) - 1)
ColDigits(s) == SubSeq(s, SemicolonAt(s) + 1, Len(s) - 1)

\* the number a digit string denotes: the sum of digit * 10^position
RECURSIVE DecValFrom(_, _)
DecValFrom(ds, k) ==
    IF k > Len(ds) THEN 0
    ELSE (ds[k] - CHR_ZERO) * (10 ^ (Len(ds) - k)) + DecValFrom(ds, k + 1)
DecVal(ds) == DecValFrom(ds, 1)

CposMax == (2 ^ (CPOS_BITS - 1)) - 1

\* C1: when __getch returns, for either echo policy, any initial mode and any
\* outcome of the read (a character or EOF), the terminal mode is the mode
\* that was in effect when __getch was entered.
C1_ModeRestored ==
    \A t \in Threads : pc[t] = "ret" => term = saved[t]

\* a __getch on the terminal that applied a mode different from the one it
\* found, whose read returned EOF, is about to return
C1_Witness ==
    \E t \in Threads :
        /\ pc[t] = "ret"
        /\ stdinTty
        /\ c[t] = EOF
        /\ newterm[t] # saved[t]
        /\ term = saved[t]

\* C2: a cursor query (wherexy, wherex, wherey) that read a well-formed reply
\* ESC [ row ; col R whose values fit in cpos_t stores row (y) = the decimal
\* value of the first digit group and column (x) = the decimal value of the
\* second; wherex returns that x and wherey that y.
C2_ReplyParsed ==
    \A t \in Threads :
        ( /\ QueryReturned(t)
          /\ WellFormedReply(Consumed)
          /\ DecVal(RowDigits(Consumed)) <= CposMax
          /\ DecVal(ColDigits(Consumed)) <= CposMax )
        => /\ stored[t]
           /\ AtPy(t) = DecVal(RowDigits(Consumed))
           /\ AtPx(t) = DecVal(ColDigits(Consumed))
           /\ ReturnsItsCoordinate(t)

\* the reply ESC [ 1 0 ; 5 R has been parsed by wherexy into row 10, column 5
C2_Witness ==
    \E t \in Threads :
        /\ Returned(t, "wherexy")
        /\ Consumed = <<CHR_ESC, CHR_LBRACKET, CHR_ZERO + 1, CHR_ZERO, CHR_SEMICOLON,
                        CHR_ZERO + 5, CHR_R>>
        /\ py[t] = 10
        /\ px[t] = 5

\* C3: when the first character read is not ESC or the second is not '[' (in
\* any combination), the query has aborted: it is not in its digit loops, it
\* stored nothing and it read exactly those two characters.
C3_BadHeaderAborts ==
    \A t \in Threads :
        ( /\ wpc[t] \in {"row", "col"} \/ QueryReturned(t)
          /\ h1[t] # CHR_ESC \/ h2[t] # CHR_LBRACKET )
        => /\ wpc[t] = "none"
           /\ ~stored[t]
           /\ nreads[t] = 2

\* the mode the claim says __getch applies: canonical input off, echo as the
\* policy says, every other flag as captured
ExpectedMode(m, e) ==
    (m \ {ICANON, ECHO}) \cup (IF e = GETCH_USE_ECHO THEN {ECHO} ELSE {})

\* C4: while __getch reads on the terminal, the terminal mode is the captured
\* mode with ICANON off, ECHO on exactly for GETCH_USE_ECHO, and every other
\* flag as captured.
C4_AppliedMode ==
    \A t \in Threads :
        (pc[t] = "read" /\ stdinTty) => term = ExpectedMode(saved[t], echo[t])

\* C5: on a terminal, getche shows the character it returns exactly once and
\* getch shows nothing, whatever the terminal mode was.
C5_EchoExactlyOnce ==
    \A t \in Threads :
        /\ (Returned(t, "getche") /\ stdinTty /\ result[t] # EOF) => out = <<result[t]>>
        /\ (Returned(t, "getch") /\ stdinTty) => out = <<>>

\* C6: when tcgetattr or the first tcsetattr of __getch has failed, the
\* terminal mode stays, through the read and up to the return, the mode it
\* was when __getch was entered.
C6_FailureLeavesMode ==
    \A t \in Threads :
        (pc[t] \in {"read", "restore", "ret"} /\ (capFailed[t] \/ appFailed[t]))
        => term = saved[t]

\* a __getch whose tcgetattr and tcsetattr failed, and whose __oldterm is not
\* the terminal's mode, is about to return
C6_Witness ==
    \E t \in Threads :
        /\ pc[t] = "ret"
        /\ capFailed[t]
        /\ appFailed[t]
        /\ oldterm[t] # term
        /\ newterm[t] # term

C8_Idempotent ==
    \A t \in Threads :
        ( /\ QueryReturned(t)
          /\ prev[t].api = api[t]
          /\ Consumed = Reply(cursor, "ok")
          /\ prev[t].consumed = Reply(cursor, "ok") )
        => /\ <<AtPx(t), AtPy(t)>> = prev[t].xy
           /\ api[t] # "wherexy" => result[t] = prev[t].result

\* the second of two successive queries has returned, at a cursor position
\* with a two-digit row
C8_Witness ==
    \E t \in Threads :
        /\ Returned(t, "wherexy")
        /\ prev[t].api = "wherexy"
        /\ Consumed = Reply(cursor, "ok")
        /\ prev[t].consumed = Reply(cursor, "ok")
        /\ cursor = <<10, 3>>
        /\ <<px[t], py[t]>> = <<3, 10>>

\* C9: a getch / getche call returns the first character of the input stream
\* and removes exactly that character; on an empty stream it returns EOF and
\* removes nothing.
C9_ReadsOneChar ==
    \A t \in Threads :
        (Returned(t, "getch") \/ Returned(t, "getche"))
        => IF inlog = <<>>
             THEN result[t] = EOF /\ stdin = <<>>
             ELSE result[t] = Head(inlog) /\ stdin = Tail(inlog)

\* getch has returned the first of two pending characters; the second is
\* still pending
C9_Witness ==
    \E t \in Threads :
        /\ Returned(t, "getch")
        /\ Len(inlog) = 2
        /\ result[t] = inlog[1]
        /\ stdin = <<inlog[2]>>

\* C11: wherex() and wherey() never return a negative value, whatever reply
\* the terminal sends.
C11_NeverNegative ==
    \A t \in Threads :
        (Returned(t, "wherex") \/ Returned(t, "wherey")) => result[t] >= 0

\* C12: every step by which kbhit returns gives non-zero exactly when a
\* character was pending on standard input, and leaves the stream as the
\* call found it; a getch / getche that follows a kbhit that returned
\* non-zero returns the pending character and removes only that one.
C12_KbhitPeeks ==
    [][\A t \in Threads :
        /\ (api[t] = "kbhit" /\ pc[t] # "idle" /\ pc'[t] = "idle")
           => /\ (result'[t] # 0) <=> (inlog # <<>>)
              /\ stdin' = inlog
        /\ ( /\ Returned(t, "getch")' \/ Returned(t, "getche")'
             /\ prev'[t].api = "kbhit"
             /\ prev'[t].result # 0 )
           => /\ inlog' # <<>>
              /\ result'[t] = Head(inlog')
              /\ stdin' = Tail(inlog')]_vars

\* two keys were typed, kbhit returned non-zero and the getch after it
\* returned the first key, leaving the second
C12_Witness ==
    \E t \in Threads :
        /\ Returned(t, "getch")
        /\ prev[t].api = "kbhit"
        /\ prev[t].result = 1
        /\ stdinTty
        /\ inlog = <<CHR_B, CHR_A>>
        /\ result[t] = CHR_B
        /\ stdin = <<CHR_A>>

Least(a, b) == IF a <= b THEN a ELSE b
Greatest(a, b) == IF a <= b THEN b ELSE a

\* C13: dellines called with non-negative from and to has erased, when it
\* returns, exactly the lines least(from, to) .. greatest(from, to).
C13_ClearsRange ==
    \A t \in Threads :
        (Returned(t, "dellines") /\ entry.from >= 0 /\ entry.to >= 0)
        => cleared = Least(entry.from, entry.to) .. Greatest(entry.from, entry.to)

\* C14: when dellines called with non-negative from and to returns, the
\* cursor is where it was when dellines was called.
C14_CursorBack ==
    \A t \in Threads :
        (Returned(t, "dellines") /\ entry.from >= 0 /\ entry.to >= 0)
        => cursor = entry.cursor

\* C23: dellines called with non-negative from and to never calls delline
\* more than greatest(from, to) - least(from, to) + 1 times, the largest
\* cpos_t included, and has called it exactly that often when it returns;
\* called with a negative from or to it has returned at once, having
\* written the error message, moved no cursor and erased no line.
C23_DeletesAndReturns ==
    \A t \in Threads :
        api[t] = "dellines"
        => IF entry.from >= 0 /\ entry.to >= 0
             THEN LET lines == Greatest(entry.from, entry.to) - Least(entry.from, entry.to) + 1
                  IN /\ ~err
                     /\ entry.deleted <= lines
                     /\ Returned(t, "dellines") => entry.deleted = lines
             ELSE /\ Returned(t, "dellines")
                  /\ err
                  /\ entry.deleted = 0
                  /\ out = <<>>
                  /\ cursor = entry.cursor
                  /\ cleared = {}

\* C15: in test_coord.c, on a terminal that answers well: after
\* gotoxy(x, y) with the x and y that wherex() and wherey() gave, the cursor
\* is at column x of line y, which is where it was when they were asked; and
\* the wherexy that follows yields that same (x, y).
C15_MoveQueryInverse ==
    /\ mpc \in {"home", "asked", "done"}
       => /\ cursor = <<py[MainThread], px[MainThread]>>
          /\ cursor = cursor0
    /\ mpc = "done" => stored[MainThread]

\* test_coord.c has run from line 10, column 3: it moved away to the first
\* column of the first line, moved back, and wherexy gave (3, 10)
C15_Witness ==
    /\ mpc = "done"
    /\ cursor0 = <<10, 3>>
    /\ out = DSR \o DSR \o gotoxy(1, 1) \o gotoxy(3, 10) \o DSR
    /\ stored[MainThread]
    /\ <<px[MainThread], py[MainThread]>> = <<3, 10>>
    /\ cursor = <<10, 3>>

\* the string a char array holds: its bytes before the first '\0'
RECURSIVE CString(_)
CString(b) ==
    IF b = <<>> \/ Head(b) = CHR_NUL THEN <<>> ELSE <<Head(b)>> \o CString(Tail(b))

\* a line without the newline that ends it
Chomp(s) == IF s # <<>> /\ s[Len(s)] = CHR_LF THEN SubSeq(s, 1, Len(s) - 1) ELSE s

\* C16: when cgets, given N in the first byte, returns buffer, it has read
\* at most N - 1 characters of the next line, and buffer holds those
\* characters without the newline: no newline is in the returned string.
C16_LineWithoutNewline ==
    (api[MainThread] = "cgets" /\ cret.value = "buffer")
    => /\ Len(Consumed) <= cret.max - 1
       /\ CString(buffer) = Chomp(Consumed)
       /\ \A k \in 1 .. Len(CString(buffer)) : CString(buffer)[k] # CHR_LF

\* C24: cgets, given N in the first byte of buffer, reads and writes no
\* byte of buffer other than its first N: neither fgets nor the scan that
\* replaces the newline leaves buffer[0 .. N-1], whatever N and the input.
C24_StaysInFirstN ==
    api[MainThread] = "cgets" => ~oob

\* C17: a cursor query has written nothing and read nothing before its
\* request, and from the request on, through every read and after its
\* return, what it has written is the one request ESC [ 6 n.
C17_RequestOnce ==
    \A t \in Threads :
        api[t] \in QueryApis
        => IF pc[t] = "request"
             THEN out = <<>> /\ Consumed = <<>>
             ELSE out = DSR

\* a query has read a malformed reply to its end, character by character, and
\* has written one request
C17_Witness ==
    \E t \in Threads :
        /\ Returned(t, "wherey")
        /\ fault = "coljunk"
        /\ nreads[t] = Len(Reply(cursor, fault))
        /\ Consumed = Reply(cursor, fault)
        /\ stored[t]
        /\ out = DSR

\* C18: the row loop is left only by reading ';' and the column loop only
\* by reading 'R', whatever else is read, EOF included; so a query that
\* passed the header check returns only after a ';' and, later, an 'R'.
C18_LoopsEndOnTerminator ==
    [][\A t \in Threads :
        /\ (wpc[t] = "row" /\ wpc'[t] # "row")
           => (c[t] = CHR_SEMICOLON /\ wpc'[t] = "col")
        /\ (wpc[t] = "col" /\ wpc'[t] # "col")
           => (c[t] = CHR_R /\ wpc'[t] = "none" /\ stored'[t])
        /\ (QueryReturned(t)' /\ stored'[t])
           => \E k \in 3 .. (Len(Consumed') - 1) :
                 /\ Consumed'[k] = CHR_SEMICOLON
                 /\ Consumed'[Len(Consumed')] = CHR_R]_vars

\* on a file that ends after ESC [, the row loop has made every read the
\* model allows, each returning EOF, and is still running
C18_Witness ==
    \E t \in Threads :
        /\ wpc[t] = "row"
        /\ pc[t] = "ret"
        /\ ~stdinTty
        /\ inlog = <<CHR_ESC, CHR_LBRACKET>>
        /\ stdin = <<>>
        /\ c[t] = EOF
        /\ nreads[t] = MaxReads

\* C19: the terminal mode is the mode the program started with, which is
\* the mode before each call, whenever no single-character read is in
\* progress: before a query, between any two of its reads, and after it
\* returned, by completing or by the header check.
C19_ModeBetweenReads ==
    (\A t \in Threads : pc[t] \notin {"read", "restore"}) => term = term0

\* a query on the terminal is between two reads of the column; the reads
\* change the mode, and the mode is the original one
C19_Witness ==
    \E t \in Threads :
        /\ api[t] = "wherexy"
        /\ wpc[t] = "col"
        /\ pc[t] = "ret"
        /\ stdinTty
        /\ nreads[t] = 7
        /\ newterm[t] # term0
        /\ term = term0

\* C20: the step by which the header check ends a query stores nothing:
\* after it the variables passed to wherexy hold what they held when
\* wherexy was called, and wherex / wherey return 0.
C20_AbortStoresNothing ==
    [][\A t \in Threads :
        (api[t] \in QueryApis /\ wpc[t] = "hdr2" /\ wpc'[t] = "none")
        => /\ <<px'[t], py'[t]>> = prev[t].caller
           /\ api[t] \in {"wherex", "wherey"} => result'[t] = 0]_vars

\* wherexy was called with variables holding non-zero values, the header
\* check ended it after two reads, and the variables hold the same values
C20_Witness ==
    \E t \in Threads :
        /\ Returned(t, "wherexy")
        /\ fault = "badfirst"
        /\ ~stored[t]
        /\ nreads[t] = 2
        /\ prev[t].caller = <<MaxCol + 5, MaxCol + 5>>
        /\ <<px[t], py[t]>> = <<MaxCol + 5, MaxCol + 5>>

\* s runs, after a header of two characters, to the first ';' and from
\* there to the first 'R', with which it ends
EndsAtTerminator(s) ==
    \E k \in 3 .. (Len(s) - 1) :
        /\ s[k] = CHR_SEMICOLON
        /\ \A j \in 3 .. (k - 1) : s[j] # CHR_SEMICOLON
        /\ s[Len(s)] = CHR_R
        /\ \A j \in (k + 1) .. (Len(s) - 1) : s[j] # CHR_R

\* the terminal's reply is what the stream held first during the call:
\* nothing was typed before it
ReplyFirst ==
    LET r == Reply(cursor, fault)
    IN Len(inlog) >= Len(r) /\ SubSeq(inlog, 1, Len(r)) = r

\* C21: a cursor query takes from the stream one character per read and
\* discards none: a completed query has consumed up to and including the
\* terminating 'R', which is the whole reply when the reply came first, and
\* a query ended by the header check has consumed two characters; what
\* follows stays in the stream in order, so that the getch after an aborted
\* header returns the third character of the reply.
C21_ConsumesReplyOnly ==
    \A t \in Threads :
        LET r == Reply(cursor, fault)
        IN /\ (api[t] \in QueryApis /\ pc[t] # "request")
              => /\ Len(Consumed) = nreads[t]
                 /\ stdin = SubSeq(inlog, nreads[t] + 1, Len(inlog))
           /\ (QueryReturned(t) /\ stored[t])
              => /\ EndsAtTerminator(Consumed)
                 /\ ReplyFirst => (Consumed = r /\ SubSeq(inlog, 1, Len(r) + Len(stdin)) = r \o stdin)
           /\ (QueryReturned(t) /\ ~stored[t])
              => /\ Len(Consumed) = 2
                 /\ ReplyFirst => (Consumed \o SubSeq(stdin, 1, Len(r) - 2) = r)
           /\ (Returned(t, "getch") /\ prev[t].api \in QueryApis
                 /\ prev[t].consumed = SubSeq(r, 1, 2))
              => result[t] = r[3]

\* the header check ended wherexy after the two characters ESC A of a
\* malformed reply, and the getch after it returned the reply's third
\* character, leaving the rest
C21_Witness ==
    \E t \in Threads :
        LET r == Reply(cursor, fault)
        IN /\ Returned(t, "getch")
           /\ fault = "badsecond"
           /\ prev[t].api = "wherexy"
           /\ prev[t].consumed = <<CHR_ESC, CHR_A>>
           /\ result[t] = r[3]
           /\ stdin = SubSeq(r, 4, Len(r))

\* C22: when kbhit has returned, with either result, the terminal mode and
\* the file status flags of standard input, O_NONBLOCK among them, are what
\* they were when it was called.
C22_KbhitRestores ==
    \A t \in Threads :
        Returned(t, "kbhit")
        => /\ result[t] \in {0, 1}
           /\ term = prev[t].mode
           /\ fl = prev[t].status
           /\ (O_NONBLOCK \in fl) <=> (O_NONBLOCK \in prev[t].status)

\* on a terminal in canonical mode with echo, standard input blocking and
\* in append status, a key was pending: kbhit changed the mode and the
\* flags, returned 1, and both are as before
C22_Witness ==
    \E t \in Threads :
        /\ Returned(t, "kbhit")
        /\ result[t] = 1
        /\ stdinTty
        /\ newt[t] # oldt[t]
        /\ prev[t].mode = Flags
        /\ prev[t].status = {O_APPEND}
        /\ term = Flags
        /\ fl = {O_APPEND}

AllIdle == \A t \in Threads : pc[t] = "idle"

\* C10: when no __getch captured the mode while another __getch had its
\* modified mode applied, the terminal mode after the calls have returned is
\* the original mode; the terminal ends in another mode only after such a
\* capture.
C10_SerializedRestores ==
    (AllIdle /\ ~stale) => term = term0

\* both threads have called and returned, one captured the other's modified
\* mode, and the terminal is left in a mode that is not the original
C10_Witness ==
    /\ AllIdle
    /\ \A t \in Threads : calls[t] = 1
    /\ stale
    /\ term # term0

====
